---- MODULE Spec2Model ----
(***************************************************************************)
(* hocrviewer: the document index (src/index.py) and the search handler    *)
(* (src/hocrviewer.py).                                                    *)
(*                                                                         *)
(* A string is a sequence of one-character strings; the two highlight      *)
(* markers '<hi>' and '</hi>' are one symbol each.  A nullable value       *)
(* (Python None, SQL NULL) is <<>> and a present value v is <<v>>.         *)
(***************************************************************************)
EXTENDS Integers, Sequences, FiniteSets, TLC

VARIABLES
    db,      \* the committed content of the database file
    tx,      \* what the connection opened by ingest_document sees (db + its own writes)
    lock,    \* who holds the write lock of the database file
    pc,      \* position of the running ingest_document call
    call,    \* the running call's arguments and parser state
    log,     \* the ingest_document calls that have returned, with their outcome
    out      \* result of the last query (search, search_in_book, autocomplete)

vars == <<db, tx, lock, pc, call, log, out>>

----------------------------------------------------------------------------
(* Bounds of the model *)

MaxCalls == 2        \* ingest_document calls per behaviour

----------------------------------------------------------------------------
(* Strings *)

Null == <<>>
Some(v) == <<v>>
IsNull(x) == x = <<>>
Val(x) == x[1]

S0 == <<>>   \* the empty string

RECURSIVE Flatten(_)
Flatten(ss) == IF ss = <<>> THEN <<>> ELSE Head(ss) \o Flatten(Tail(ss))

\* sep.join(parts)
RECURSIVE Join(_, _)
Join(parts, sep) ==
    IF parts = <<>> THEN <<>>
    ELSE IF Len(parts) = 1 THEN parts[1]
    ELSE parts[1] \o sep \o Join(Tail(parts), sep)

HasAt(s, sep, i) ==
    /\ i + Len(sep) - 1 <= Len(s)
    /\ \A k \in 1..Len(sep) : s[i + k - 1] = sep[k]

Contains(s, sep) == \E i \in 1..Len(s) : HasAt(s, sep, i)

FirstAt(s, sep) == CHOOSE i \in 1..Len(s) : HasAt(s, sep, i) /\ \A j \in 1..(i-1) : ~HasAt(s, sep, j)

\* s.split(sep): every piece between occurrences of sep, empty pieces included
RECURSIVE Split(_, _)
Split(s, sep) ==
    IF ~Contains(s, sep) THEN <<s>>
    ELSE LET i == FirstAt(s, sep)
         IN <<SubSeq(s, 1, i - 1)>> \o Split(SubSeq(s, i + Len(sep), Len(s)), sep)

SelectNonEmpty(parts) == SelectSeq(parts, LAMBDA p : p # <<>>)

\* s.split(): pieces between runs of whitespace, no empty piece
SplitWs(s) == SelectNonEmpty(Split(s, <<" ">>))

\* s.replace(sym, '') for a one-symbol marker
Remove(s, sym) == SelectSeq(s, LAMBDA c : c # sym)

RECURSIVE LStrip(_)
LStrip(s) == IF s # <<>> /\ Head(s) = " " THEN LStrip(Tail(s)) ELSE s

RECURSIVE RStrip(_)
RStrip(s) == IF s # <<>> /\ s[Len(s)] = " " THEN RStrip(SubSeq(s, 1, Len(s) - 1)) ELSE s

Strip(s) == LStrip(RStrip(s))

\* re.sub(r'\s{2,}', ' ', s): every run of two or more blanks becomes one blank
RECURSIVE CollapseWs(_)
CollapseWs(s) ==
    IF Len(s) < 2 THEN s
    ELSE IF s[1] = " " /\ s[2] = " " THEN CollapseWs(Tail(s))
    ELSE <<s[1]>> \o CollapseWs(Tail(s))

Digits == <<"0", "1", "2", "3", "4", "5", "6", "7", "8", "9">>

DigitVal(c) == (CHOOSE i \in 1..10 : Digits[i] = c) - 1

IsDigit(c) == \E i \in 1..10 : Digits[i] = c

\* str(n)
RECURSIVE StrNat(_)
StrNat(n) == IF n < 10 THEN <<Digits[n + 1]>> ELSE StrNat(n \div 10) \o <<Digits[(n % 10) + 1]>>

Str(n) == IF n < 0 THEN <<"-">> \o StrNat(0 - n) ELSE StrNat(n)

RECURSIVE NatOf(_)
NatOf(s) == IF Len(s) = 1 THEN DigitVal(s[1])
            ELSE 10 * NatOf(SubSeq(s, 1, Len(s) - 1)) + DigitVal(s[Len(s)])

IsNumeral(s) ==
    LET body == IF s # <<>> /\ s[1] = "-" THEN Tail(s) ELSE s
    IN body # <<>> /\ \A i \in 1..Len(body) : IsDigit(body[i])

\* int(s), for a numeral
Int_(s) == IF s[1] = "-" THEN 0 - NatOf(Tail(s)) ELSE NatOf(s)


----------------------------------------------------------------------------
(* The hOCR input.  A document is what lxml parsed from the file: page      *)
(* nodes, each with line nodes, each with word nodes and its text content.  *)

DIMENSIONS == <<9, 9>>    \* a page's pixel size; no property reads it

\* a word node (ocr_cinfo): title is "bbox" (a title with a bbox), "none" (no
\* title attribute) or "other" (a title that holds no bbox)
Word(title, x1, x2) == [title |-> title, x1 |-> x1, x2 |-> x2]

\* a line node (ocr_line): bbox is Null or Some(<<x1, y1, x2, y2>>)
Line(bbox, words, text) == [bbox |-> bbox, words |-> words, text |-> text]

\* a document: the page nodes of the parsed file; readable is FALSE for a file
\* lxml cannot parse
Document(pages) == [readable |-> TRUE, pages |-> pages]

\* a page node (ocr_page): img is "bbox" (dimensions in the title), "skip"
\* (no image can be resolved) or "ioerror" (the image cannot be opened)
Page(id, img, lines) == [id |-> id, img |-> img, lines |-> lines]

\* _get_img_path: the image file of a page, named after the page
ImagePath(id) == <<"i", "m", "g", "/">> \o <<id>>

\* HocrDocument.get_pages: one tuple per page whose image resolves; raises when
\* a page has no bbox and its image cannot be opened
get_pages_raises(doc) == \E i \in 1..Len(doc.pages) : doc.pages[i].img = "ioerror"

get_pages(doc) ==
    LET kept == SelectSeq(doc.pages, LAMBDA p : p.img # "skip")
    IN [i \in 1..Len(kept) |->
          [page_id |-> kept[i].id, dimensions |-> DIMENSIONS, img_path |-> ImagePath(kept[i].id)]]

\* the word cuts of one line node; k is the next value of word_idx_gen
word_cuts_of(words, k) ==
    [i \in 1..Len(words) |->
        IF words[i].title = "none"
        THEN <<Str(k + i - 1), <<"-", "1">>, <<"-", "1">> >>
        ELSE <<Str(k + i - 1), words[i].x1, words[i].x2>>]

\* the text of a line node: blanks stripped, runs of blanks collapsed
line_text(raw) == CollapseWs(Strip(raw))

\* the lines of one page node; the word counter runs on across its lines and
\* a line with empty text is left out
RECURSIVE page_lines(_, _)
page_lines(nodes, k) ==
    IF nodes = <<>> THEN <<>>
    ELSE LET n == Head(nodes)
             text == line_text(n.text)
             here == IF text # S0
                     THEN << [bbox |-> n.bbox, word_cuts |-> word_cuts_of(n.words, k),
                              text |-> text] >>
                     ELSE <<>>
         IN here \o page_lines(Tail(nodes), k + Len(n.words))

\* title_data['bbox'] of a word node whose title holds no bbox: KeyError
get_lines_raises(doc) ==
    \E i \in 1..Len(doc.pages) : \E j \in 1..Len(doc.pages[i].lines) :
        \E w \in 1..Len(doc.pages[i].lines[j].words) :
            doc.pages[i].lines[j].words[w].title = "other"

\* HocrDocument.get_lines: (page_id, lines) for every page node
get_lines(doc) ==
    [i \in 1..Len(doc.pages) |->
        [page_id |-> doc.pages[i].id, lines |-> page_lines(doc.pages[i].lines, 0)]]

----------------------------------------------------------------------------
(* The store: the tables of SCHEMA, each the sequence of its rows in rowid  *)
(* order.                                                                   *)

EmptyStore ==
    [documents |-> <<>>, pages |-> <<>>, transcriptions |-> <<>>,
     text_idx |-> <<>>, lexica |-> <<>>]

\* hocr_path.stem, or for the Google Books layout the directory's name
doc_id_of(path) == IF path.stem = "hOCR" THEN path.parent ELSE path.stem

\* INSERT_DOCUMENT violates UNIQUE(document_id) or UNIQUE(filename)
InsertDocumentConflict(S, doc_id, filename) ==
    \E i \in 1..Len(S.documents) :
        \/ S.documents[i].document_id = doc_id
        \/ S.documents[i].filename = filename

\* INSERT_DOCUMENT
InsertDocument(S, doc_id, filename) ==
    [S EXCEPT !.documents =
        Append(@, [document_id |-> doc_id, filename |-> filename])]

\* INSERT_PAGE, with UNIQUE(page_id, document_id) ON CONFLICT REPLACE
InsertPage(S, row) ==
    [S EXCEPT !.pages =
        Append(SelectSeq(@, LAMBDA r : ~(r.page_id = row.page_id
                                         /\ r.document_id = row.document_id)), row)]

RECURSIVE InsertPages(_, _)
InsertPages(S, rows) ==
    IF rows = <<>> THEN S ELSE InsertPages(InsertPage(S, Head(rows)), Tail(rows))

\* INSERT_TRANSCRIPTION, with UNIQUE(page_id, document_id, position) ON CONFLICT REPLACE
InsertTranscription(S, row) ==
    [S EXCEPT !.transcriptions =
        Append(SelectSeq(@, LAMBDA r : ~(r.page_id = row.page_id
                                         /\ r.document_id = row.document_id
                                         /\ r.position = row.position)), row)]

RECURSIVE InsertTranscriptions(_, _)
InsertTranscriptions(S, rows) ==
    IF rows = <<>> THEN S
    ELSE InsertTranscriptions(InsertTranscription(S, Head(rows)), Tail(rows))

\* Python truth value of a nullable integer: None and 0 are false
Truthy(x) == ~IsNull(x) /\ Val(x) # 0

\* the parameters of INSERT_PAGE for one parsed page
page_vals(doc_id, p) ==
    [page_id |-> p.page_id, document_id |-> doc_id, img_path |-> p.img_path,
     img_width |-> p.dimensions[1], img_height |-> p.dimensions[2]]

\* line_vals: the parameters of INSERT_TRANSCRIPTION for a page's lines
line_vals(doc_id, page_id, lines) ==
    [i \in 1..Len(lines) |->
        LET b  == lines[i].bbox
            x1 == IF IsNull(b) THEN Null ELSE Some(Val(b)[1])
            y1 == IF IsNull(b) THEN Null ELSE Some(Val(b)[2])
            x2 == IF IsNull(b) THEN Null ELSE Some(Val(b)[3])
            y2 == IF IsNull(b) THEN Null ELSE Some(Val(b)[4])
        IN [document_id |-> doc_id, page_id |-> page_id,
            text |-> lines[i].text, position |-> i - 1,
            word_cuts |-> Join([c \in 1..Len(lines[i].word_cuts) |->
                                   Join(lines[i].word_cuts[c], <<":">>)], <<" ">>),
            pos_x |-> x1, pos_y |-> y1,
            width  |-> IF Truthy(x1) /\ Truthy(x2) THEN Some(Val(x2) - Val(x1)) ELSE Null,
            height |-> IF Truthy(x1) /\ Truthy(x2) THEN Some(Val(y2) - Val(y1)) ELSE Null]]


\* the rows of all pages, in the order the loop over doc.get_lines() inserts them
all_line_vals(id, parsed) ==
    LET pages == get_lines(parsed)
    IN Flatten([i \in 1..Len(pages) |-> line_vals(id, pages[i].page_id, pages[i].lines)])

\* the rows of the pages doc.get_pages() yields
all_page_vals(id, parsed) ==
    LET pages == get_pages(parsed)
    IN [i \in 1..Len(pages) |-> page_vals(id, pages[i])]

----------------------------------------------------------------------------
(* The search index: text_idx and its vocabulary text_vocab                 *)

\* page ids in the order SQLite compares them
PageOrder == <<"p1", "p2">>

PageRank(id) == CHOOSE i \in 1..Len(PageOrder) : PageOrder[i] = id

\* ORDER BY page_id, position
RowBefore(a, b) ==
    \/ PageRank(a.page_id) < PageRank(b.page_id)
    \/ PageRank(a.page_id) = PageRank(b.page_id) /\ a.position < b.position

\* the rows in ORDER BY order; rows that compare equal keep their rowid order
RECURSIVE OrderRows(_)
OrderRows(rows) ==
    IF rows = <<>> THEN <<>>
    ELSE LET m == CHOOSE i \in 1..Len(rows) :
                    /\ \A j \in 1..Len(rows) : ~RowBefore(rows[j], rows[i])
                    /\ \A j \in 1..(i-1) : RowBefore(rows[i], rows[j])
             rest == [j \in 1..(Len(rows) - 1) |-> IF j < m THEN rows[j] ELSE rows[j + 1]]
         IN <<rows[m]>> \o OrderRows(rest)

\* the numbers of a set, ascending
RECURSIVE Ascending(_)
Ascending(ns) ==
    IF ns = {} THEN <<>>
    ELSE LET least == CHOOSE n \in ns : \A k \in ns : n <= k
         IN <<least>> \o Ascending(ns \ {least})

----------------------------------------------------------------------------
(* The metadata reads of DocumentRepository.  A read gives Some(value), or  *)
(* Null when it raises; fetchone() gives Null for no row, else Some(row).   *)

\* cursor.fetchone(): the first row, None when there is none
fetchone(rows) == IF rows = <<>> THEN Null ELSE Some(rows[1])

\* document_ids
document_ids(S) == Some([i \in 1..Len(S.documents) |-> S.documents[i].document_id])

\* get_document: the row (document_id, filename, metadata), metadata is NULL
get_document(S, document_id) ==
    LET rows == SelectSeq(S.documents, LAMBDA r : r.document_id = document_id)
    IN Some(fetchone([i \in 1..Len(rows) |->
                         <<rows[i].document_id, rows[i].filename, Null>>]))

\* get_image_path: fetchone()[0], which raises TypeError when fetchone() is None
get_image_path(S, document_id, page_id) ==
    LET rows == SelectSeq(S.pages, LAMBDA r : r.document_id = document_id
                                               /\ r.page_id = page_id)
        row  == fetchone([i \in 1..Len(rows) |-> <<rows[i].img_path>>])
    IN IF IsNull(row) THEN Null ELSE Some(Val(row)[1])

\* DocumentRepository.get_lines: (text, pos_x, pos_y, width, height) of the
\* page's rows, ORDER BY position
repository_get_lines(S, document_id, page_id) ==
    LET rows == OrderRows(SelectSeq(S.transcriptions,
                    LAMBDA r : r.document_id = document_id /\ r.page_id = page_id))
    IN Some([i \in 1..Len(rows) |->
                <<rows[i].text, rows[i].pos_x, rows[i].pos_y, rows[i].width, rows[i].height>>])

\* the columns get_pages and get_page select
page_columns(r) == <<r.page_id, r.img_path, r.img_width, r.img_height>>

\* the rows of a sequence ascending by page_id, page ids as listed in ids
page_rows_in_order(rows, ids) ==
    Flatten([k \in 1..Len(ids) |-> SelectSeq(rows, LAMBDA r : r.page_id = ids[k])])

\* DocumentRepository.get_pages: the page rows of the document, ORDER BY page_id
repository_get_pages(S, document_id) ==
    LET rows == page_rows_in_order(
                    SelectSeq(S.pages, LAMBDA r : r.document_id = document_id), PageOrder)
    IN Some([i \in 1..Len(rows) |-> page_columns(rows[i])])

\* get_page: fetchone() of the page's row
get_page(S, document_id, page_id) ==
    LET rows == SelectSeq(S.pages, LAMBDA r : r.document_id = document_id
                                               /\ r.page_id = page_id)
    IN Some(fetchone([i \in 1..Len(rows) |-> page_columns(rows[i])]))

\* a || b on nullable strings: NULL when an operand is NULL
Cat(a, b) == IF IsNull(a) \/ IsNull(b) THEN Null ELSE Some(Val(a) \o Val(b))

\* an INTEGER column in a string concatenation
NumText(x) == IF IsNull(x) THEN Null ELSE Some(Str(Val(x)))

\* word_cuts || '|' || pos_y || ':' || height || ':' || position || '||'
word_infos_of(r) ==
    Cat(Cat(Cat(Cat(Cat(Cat(Cat(Some(r.word_cuts), Some(<<"|">>)), NumText(r.pos_y)),
        Some(<<":">>)), NumText(r.height)), Some(<<":">>)), NumText(Some(r.position))),
        Some(<<"|", "|">>))

\* group_concat(x, ' '): the non-NULL values joined by a blank, NULL when there is none
group_concat(vals) ==
    LET present == SelectSeq(vals, LAMBDA v : ~IsNull(v))
    IN IF present = <<>> THEN Null
       ELSE Some(Join([i \in 1..Len(present) |-> Val(present[i])], <<" ">>))

\* the statement without its WHERE clause: the rows of every document
all_transcriptions(S, doc_id) == S.transcriptions

\* the rows of transcriptions the statement selects: WHERE document_id = :document_id
selected_transcriptions(S, doc_id) ==
    SelectSeq(S.transcriptions, LAMBDA r : r.document_id = doc_id)

\* UPDATE_INDEX_SINGLE_DOCUMENT: one row per page_id of the selected rows, in
\* page_id order, built from the page's rows in position order
index_rows(S, doc_id) ==
    LET rows   == OrderRows(selected_transcriptions(S, doc_id))
        ids    == {rows[i].page_id : i \in 1..Len(rows)}
        groups == SelectSeq(PageOrder, LAMBDA id : id \in ids)
    IN [g \in 1..Len(groups) |->
          LET mine == SelectSeq(rows, LAMBDA r : r.page_id = groups[g])
          IN [document_id |-> mine[Len(mine)].document_id,
              page_id     |-> groups[g],
              text        |-> Val(group_concat([i \in 1..Len(mine) |-> Some(mine[i].text)])),
              word_infos  |-> group_concat([i \in 1..Len(mine) |-> word_infos_of(mine[i])])]]

UpdateIndexSingleDocument(S, doc_id) ==
    [S EXCEPT !.text_idx = @ \o index_rows(S, doc_id)]

\* the letters of the model's texts, in the order SQLite compares them
LowerCase == <<"a", "b", "c", "d", "e", "m", "r", "t">>
UpperCase == <<"A", "B", "C", "D", "E", "M", "R", "T">>

IsLower(c) == \E i \in 1..Len(LowerCase) : LowerCase[i] = c
IsUpper(c) == \E i \in 1..Len(UpperCase) : UpperCase[i] = c

\* a token character of the unicode61 tokenizer
IsTokenChar(c) == IsLower(c) \/ IsUpper(c) \/ IsDigit(c)

\* str.lower() / the tokenizer's case folding, on one character
LowerChar(c) == IF IsUpper(c) THEN LowerCase[CHOOSE i \in 1..Len(UpperCase) : UpperCase[i] = c] ELSE c

Lower(s) == [i \in 1..Len(s) |-> LowerChar(s[i])]

\* the porter stemmer: a word of one or two letters, and the word 'term', are
\* their own stem; the model's texts hold no other word
Stem(w) == w

\* the tokens of a text: the maximal runs of token characters, each with the
\* places of its first and last character
fts_tokens(text) ==
    LET starts == {i \in 1..Len(text) :
                     IsTokenChar(text[i]) /\ (i = 1 \/ ~IsTokenChar(text[i - 1]))}
        EndOf(i) == CHOOSE j \in i..Len(text) :
                     /\ \A k \in i..j : IsTokenChar(text[k])
                     /\ (j = Len(text) \/ ~IsTokenChar(text[j + 1]))
        ordered == Ascending(starts)
    IN [n \in 1..Len(ordered) |->
          [term  |-> Stem(Lower(SubSeq(text, ordered[n], EndOf(ordered[n])))),
           first |-> ordered[n], last |-> EndOf(ordered[n])]]

\* a < b in the order of the vocabulary's terms
RECURSIVE TermLess(_, _)
TermLess(a, b) ==
    LET Rank(c) == CHOOSE i \in 1..Len(LowerCase) : LowerCase[i] = c
    IN IF b = <<>> THEN FALSE
       ELSE IF a = <<>> THEN TRUE
       ELSE IF a[1] # b[1] THEN Rank(a[1]) < Rank(b[1])
       ELSE TermLess(Tail(a), Tail(b))

\* the terms of a set, ascending
RECURSIVE SortTerms(_)
SortTerms(ts) ==
    IF ts = {} THEN <<>>
    ELSE LET least == CHOOSE t \in ts : \A u \in ts \ {t} : TermLess(t, u)
         IN <<least>> \o SortTerms(ts \ {least})

\* occurrences of a term in a token sequence
Occurrences(toks, t) == Cardinality({i \in 1..Len(toks) : toks[i].term = t})

RECURSIVE SumSeq(_)
SumSeq(ns) == IF ns = <<>> THEN 0 ELSE Head(ns) + SumSeq(Tail(ns))

\* SELECT term, cnt FROM text_vocab: every term of the index with the number
\* of its occurrences in all rows, in term order
text_vocab(S) ==
    LET toks  == [i \in 1..Len(S.text_idx) |-> fts_tokens(S.text_idx[i].text)]
        terms == UNION {{toks[i][j].term : j \in 1..Len(toks[i])} : i \in 1..Len(toks)}
        order == SortTerms(terms)
    IN [n \in 1..Len(order) |->
          <<order[n], SumSeq([i \in 1..Len(toks) |-> Occurrences(toks[i], order[n])])>>]


----------------------------------------------------------------------------
(* The term table of a document (lexica)                                    *)

\* A Counter is the sequence of its (term, count) pairs in insertion order.

\* counter.get(key): Null when the key is absent
Get(counter, key) ==
    IF \E i \in 1..Len(counter) : counter[i][1] = key
    THEN Some(counter[CHOOSE i \in 1..Len(counter) : counter[i][1] = key][2])
    ELSE Null

\* counter.get(key, default)
GetOr(counter, key, default) ==
    IF IsNull(Get(counter, key)) THEN default ELSE Val(Get(counter, key))

\* the string 'term' that _update_search_index looks up in terms_before
TermKey == <<"t", "e", "r", "m">>

\* doc_terms as first built: for every term of terms_after whose count differs
\* from terms_before.get('term'), its count minus terms_before.get('term', 0)
doc_terms(terms_before, terms_after) ==
    LET kept == SelectSeq(terms_after,
                    LAMBDA p : IsNull(Get(terms_before, TermKey))
                               \/ p[2] # Val(Get(terms_before, TermKey)))
    IN [i \in 1..Len(kept) |-> <<kept[i][1], kept[i][2] - GetOr(terms_before, TermKey, 0)>>]

\* the terms below the threshold are deleted
purge(counter, autocomplete_min_count) ==
    SelectSeq(counter, LAMBDA p : ~(p[2] < autocomplete_min_count))

\* INSERT INTO lexica violates UNIQUE(document_id)
InsertLexicaConflict(S, doc_id) ==
    \E i \in 1..Len(S.lexica) : S.lexica[i].document_id = doc_id

\* INSERT INTO lexica: the counter as gzipped JSON, which json.loads gives back
\* pair for pair
InsertLexica(S, doc_id, counter) ==
    [S EXCEPT !.lexica = Append(@, [document_id |-> doc_id, counter |-> counter])]

\* the statements of _update_search_index, on the store its connection sees
update_search_index(S, doc_id, autocomplete_min_count) ==
    LET terms_before == text_vocab(S)
        S1           == UpdateIndexSingleDocument(S, doc_id)
        terms_after  == text_vocab(S1)
        terms        == purge(doc_terms(terms_before, terms_after), autocomplete_min_count)
    IN [raised |-> InsertLexicaConflict(S1, doc_id),
        store  |-> InsertLexica(S1, doc_id, terms)]

\* _get_term_frequencies: raises (Null) when lexica holds no row for the document
get_term_frequencies(S, doc_id) ==
    IF \E i \in 1..Len(S.lexica) : S.lexica[i].document_id = doc_id
    THEN Some(S.lexica[CHOOSE i \in 1..Len(S.lexica) : S.lexica[i].document_id = doc_id].counter)
    ELSE Null

\* Counter.most_common(): by descending count, equal counts in insertion order
RECURSIVE most_common(_)
most_common(counter) ==
    IF counter = <<>> THEN <<>>
    ELSE LET m == CHOOSE i \in 1..Len(counter) :
                    /\ \A j \in 1..Len(counter) : counter[j][2] <= counter[i][2]
                    /\ \A j \in 1..(i-1) : counter[j][2] < counter[i][2]
             rest == [j \in 1..(Len(counter) - 1) |->
                         IF j < m THEN counter[j] ELSE counter[j + 1]]
         IN <<counter[m]>> \o most_common(rest)

\* term.startswith(query)
StartsWith(term, query) == Len(query) <= Len(term) /\ SubSeq(term, 1, Len(query)) = query

\* autocomplete: Null when _get_term_frequencies raises
autocomplete(S, query, doc_id, min_cnt) ==
    LET freqs == get_term_frequencies(S, doc_id)
    IN IF IsNull(freqs) THEN Null
       ELSE Some(SelectSeq(most_common(Val(freqs)),
                           LAMBDA p : StartsWith(p[1], Lower(query)) /\ p[2] >= min_cnt))

----------------------------------------------------------------------------
(* Search: SEARCH_INSIDE and the decoding of word_infos                     *)

\* A query is a sequence of phrases joined by OR; a phrase is a sequence of words.

\* the places (token numbers, from 1) where the phrase occurs in the tokens
phrase_instances(toks, phrase) ==
    {<<i, i + Len(phrase) - 1>> : i \in
        {i \in 1..Len(toks) :
            /\ i + Len(phrase) - 1 <= Len(toks)
            /\ \A k \in 1..Len(phrase) : toks[i + k - 1].term = Stem(Lower(phrase[k]))}}

instances(toks, query) == UNION {phrase_instances(toks, query[q]) : q \in 1..Len(query)}

Max(a, b) == IF a >= b THEN a ELSE b

\* highlight() coalesces an instance with every later one that starts inside it
RECURSIVE Absorb(_, _)
Absorb(cur, rest) ==
    IF \E x \in rest : x[1] <= cur[2]
    THEN LET x == CHOOSE x \in rest : x[1] <= cur[2]
         IN Absorb(<<cur[1], Max(cur[2], x[2])>>, rest \ {x})
    ELSE <<cur, rest>>

RECURSIVE Coalesce(_)
Coalesce(insts) ==
    IF insts = {} THEN <<>>
    ELSE LET first == CHOOSE x \in insts : \A y \in insts : x[1] <= y[1]
             got   == Absorb(first, insts \ {first})
         IN <<got[1]>> \o Coalesce(got[2])

\* highlight(text_idx, 0, '<hi>', '</hi>'): the text with every coalesced
\* instance wrapped in the markers
highlight(text, query) ==
    LET toks   == fts_tokens(text)
        spans  == Coalesce(instances(toks, query))
        opens  == {toks[spans[i][1]].first : i \in 1..Len(spans)}
        closes == {toks[spans[i][2]].last : i \in 1..Len(spans)}
    IN Flatten([i \in 1..Len(text) |->
                  (IF i \in opens THEN <<"<hi>">> ELSE <<>>)
                  \o <<text[i]>>
                  \o (IF i \in closes THEN <<"</hi>">> ELSE <<>>)])

\* the rows SEARCH_INSIDE returns: the rows of the document that match, each
\* with its highlighted text (rows are taken in rowid order; their rank is not
\* modelled, and LIMIT 50 exceeds the rows of the model)
search_inside(S, query, doc_id) ==
    LET hit == SelectSeq(S.text_idx,
                   LAMBDA r : r.document_id = doc_id
                              /\ instances(fts_tokens(r.text), query) # {})
    IN [i \in 1..Len(hit) |->
          [page_id |-> hit[i].page_id, match_text |-> highlight(hit[i].text, query),
           word_infos |-> hit[i].word_infos]]

\* int(x) if x != '' else -1
field_value(x) == IF x = S0 THEN 0 - 1 ELSE Int_(x)

field_ok(x) == x = S0 \/ IsNumeral(x)

\* LineInfo(*...) / WordInfo(*...): three fields, each empty or a numeral
triple_ok(s) ==
    LET f == Split(s, <<":">>)
    IN Len(f) = 3 /\ \A i \in 1..3 : field_ok(f[i])

triple(s) == LET f == Split(s, <<":">>) IN [i \in 1..3 |-> field_value(f[i])]

\* the non-empty pieces of word_infos.split('||')
combined_of(word_infos) == SelectNonEmpty(Split(word_infos, <<"|", "|">>))

\* the words of winfos.split(' '), empty ones skipped
winfos_of(combined) == SelectNonEmpty(Split(Split(combined, <<"|">>)[1], <<" ">>))

\* decoding one piece raises unless it unpacks into (winfos, linfo) of triples
combined_ok(combined) ==
    LET parts == Split(combined, <<"|">>)
        ws    == winfos_of(combined)
    IN /\ Len(parts) = 2
       /\ triple_ok(parts[2])
       /\ \A i \in 1..Len(ws) : triple_ok(ws[i])

\* word_infos is NULL (None has no split), or a piece does not decode
decode_raises(word_infos) ==
    \/ IsNull(word_infos)
    \/ LET pieces == combined_of(Val(word_infos))
       IN \E i \in 1..Len(pieces) : ~combined_ok(pieces[i])

\* line_infos: (LineInfo(y_pos, height, sequence_pos),
\*              (WordInfo(sequence_pos, start_x, end_x), ...)) for every piece
decode(word_infos) ==
    LET pieces == combined_of(Val(word_infos))
    IN [i \in 1..Len(pieces) |->
          LET ws == winfos_of(pieces[i])
          IN [linfo  |-> triple(Split(pieces[i], <<"|">>)[2]),
              winfos |-> [w \in 1..Len(ws) |-> triple(ws[w])]]]

\* DocumentRepository.search, consumed to its end
search_raises(S, query, doc_id) ==
    LET m == search_inside(S, query, doc_id)
    IN \E i \in 1..Len(m) : decode_raises(m[i].word_infos)

search(S, query, doc_id) ==
    LET m == search_inside(S, query, doc_id)
    IN [i \in 1..Len(m) |->
          [page_id |-> m[i].page_id, match_text |-> m[i].match_text,
           line_infos |-> decode(m[i].word_infos)]]


----------------------------------------------------------------------------
(* The search handler search_in_book (src/hocrviewer.py)                    *)

Min(a, b) == IF a <= b THEN a ELSE b

HasMarker(word, marker) == \E i \in 1..Len(word) : word[i] = marker

\* match.replace("<hi>", "").replace("</hi>", "")
strip_markers(s) == Remove(Remove(s, "<hi>"), "</hi>")

\* the indexes (from 0) of the words that hold the marker
marker_idxs(match_text, marker) ==
    Ascending({i - 1 : i \in {i \in 1..Len(match_text) : HasMarker(match_text[i], marker)}})

\* match_text[a:b] of Python, for 0 <= a
Slice(words, a, b) == SubSeq(words, a + 1, Min(b, Len(words)))

\* match_words: for every line, the words whose sequence_pos lies in
\* [start_idx, end_idx]
match_words(match_text, line_infos, start_idx, end_idx) ==
    Flatten([n \in 1..Len(line_infos) |->
        LET l  == line_infos[n].linfo
            ws == SelectSeq(line_infos[n].winfos,
                            LAMBDA w : start_idx <= w[1] /\ w[1] <= end_idx)
        IN [i \in 1..Len(ws) |->
              [chars |-> strip_markers(match_text[ws[i][1] + 1]), pos |-> ws[i][1],
               x |-> ws[i][2], y |-> l[1], w |-> ws[i][3] - ws[i][2], h |-> l[2]]]])

\* the hits of one matching page: zip(start_idxs, end_idxs)
page_hits(m) ==
    LET match_text == SplitWs(m.match_text)
        start_idxs == marker_idxs(match_text, "<hi>")
        end_idxs   == marker_idxs(match_text, "</hi>")
    IN [k \in 1..Min(Len(start_idxs), Len(end_idxs)) |->
          LET start_idx == start_idxs[k]
              end_idx   == end_idxs[k]
          IN [page_id |-> m.page_id, start_idx |-> start_idx, end_idx |-> end_idx,
              match  |-> strip_markers(Join(Slice(match_text, start_idx, end_idx + 1), <<" ">>)),
              before |-> << <<"...">> \o Join(Slice(match_text, Max(0, start_idx - 8), start_idx),
                                               <<" ">>) >>,
              after  |-> Join(Slice(match_text, end_idx + 1, end_idx + 9), <<" ">>) \o <<"...">>,
              words  |-> match_words(match_text, m.line_infos, start_idx, end_idx)]]

\* search_in_book: the hits of all matching pages, in the order search yields
\* the pages; Null when search raises
search_in_book(S, query, book_id) ==
    IF search_raises(S, query, book_id) THEN Null
    ELSE LET pages == search(S, query, book_id)
         IN Some(Flatten([i \in 1..Len(pages) |-> page_hits(pages[i])]))


----------------------------------------------------------------------------
(* Inputs                                                                   *)

W(x1, x2) == Word("bbox", Str(x1), Str(x2))

\* line nodes
LineAB    == Line(Some(<<1, 2, 5, 4>>), <<W(1, 2), W(3, 5)>>, <<"a", " ", "b">>)
LineC     == Line(Some(<<2, 5, 6, 8>>), <<W(2, 6)>>, <<"c">>)
LineNoBox == Line(Null, <<W(1, 3)>>, <<"c">>)
LineZero  == Line(Some(<<0, 6, 4, 9>>), <<W(0, 4)>>, <<"d">>)
LinePunct == Line(Some(<<1, 2, 7, 4>>), <<W(1, 3), W(4, 5), W(6, 7)>>,
                  <<"a", "-", "b", " ", "c", " ", " ", "d">>)
LineBlank == Line(Some(<<1, 5, 3, 6>>), <<W(1, 3)>>, <<" ", " ">>)
LineNoGeo == Line(Some(<<1, 6, 4, 8>>), <<Word("none", S0, S0), W(3, 4)>>,
                  <<"A", " ", "e">>)
LineBare  == Line(Some(<<3, 1, 6, 2>>), <<>>, <<"e">>)
LineTerm  == Line(Some(<<1, 1, 5, 2>>), <<W(1, 5)>>, <<"t", "e", "r", "m">>)
LineOther == Line(Some(<<1, 1, 5, 2>>), <<Word("other", S0, S0)>>, <<"a">>)

\* a file lxml cannot parse
Unreadable == [readable |-> FALSE, pages |-> <<>>]

DocAB      == Document(<< Page("p1", "bbox", <<LineAB>>) >>)
DocMixed   == Document(<< Page("p1", "bbox", <<LineAB, LineNoBox>>) >>)
DocNoBox   == Document(<< Page("p1", "bbox", <<LineNoBox>>) >>)
DocPunct   == Document(<< Page("p1", "bbox", <<LinePunct>>),
                          Page("p2", "bbox", <<LineC, LineZero>>) >>)
DocSkip    == Document(<< Page("p1", "bbox", <<LineBlank, LineNoGeo>>),
                          Page("p2", "skip", <<LineBare>>) >>)
DocTerm    == Document(<< Page("p1", "bbox", <<LineTerm>>) >>)
DocIOError == Document(<< Page("p1", "bbox", <<LineAB>>), Page("p2", "ioerror", <<LineC>>) >>)
DocOther   == Document(<< Page("p1", "bbox", <<LineAB, LineOther>>) >>)

Docs == {DocAB, DocMixed, DocNoBox, DocPunct, DocSkip, DocTerm, DocIOError, DocOther,
         Unreadable}

\* the documents found under the second path
DocsD2 == {DocAB, DocMixed, DocPunct, DocTerm}

\* the document ids of the requests
DocIds == {"d1", "d2"}

\* values of min_cnt
MinCounts == {1, 2}

\* the page ids of the requests: the ids of the documents and one of no document
PageIds == {"p1", "p2", "p3"}

PathD1 == [parent |-> "x", stem |-> "d1"]
PathD2 == [parent |-> "x", stem |-> "d2"]
PathGoogle == [parent |-> "d1", stem |-> "hOCR"]

\* the calls of ingest_document: (hocr_path, the document parsed from it,
\* autocomplete_min_count)
Calls ==
    {[path |-> PathD1, doc |-> d, min_count |-> 1] : d \in Docs}
    \cup {[path |-> PathD2, doc |-> d, min_count |-> n] : d \in DocsD2, n \in MinCounts}
    \cup {[path |-> PathGoogle, doc |-> DocAB, min_count |-> 1]}

\* queries: a, c, and  a OR "b c" OR d
Queries ==
    { << << <<"a">> >> >>,
      << << <<"c">> >> >>,
      << << <<"a">> >>, << <<"b">>, <<"c">> >>, << <<"d">> >> >> }

\* autocomplete prefixes
Prefixes == { S0, <<"A">> }

----------------------------------------------------------------------------
(* The program: DocumentRepository on a new database file.  Calls and       *)
(* requests are handled one at a time; a handler's result lives until its   *)
(* response is sent.                                                        *)

NoTx == Null

\* a connection that keeps its writes when it is left by an exception
KeepWrites(committed, view) == IF IsNull(view) THEN committed ELSE Val(view)

\* leaving `with sqlite3.connect(...)` by an exception: the connection's
\* writes are rolled back, the file keeps its committed content
Rollback(committed, view) == committed

\* leaving it normally: the connection's view is committed
Commit(committed, view) == view

\* the arguments of the running call, and the document HocrDocument parsed
path == Val(call).path
doc_id == doc_id_of(Val(call).path)
doc == Val(call).doc
autocomplete_min_count == Val(call).min_count

\* the store the open connection of ingest_document sees
cur == Val(tx)

Returned(outcome) ==
    Append(log, [path |-> path, doc_id |-> doc_id, doc |-> doc,
                 min_count |-> autocomplete_min_count, outcome |-> outcome])

Init ==
    /\ db = EmptyStore
    /\ tx = NoTx
    /\ lock = "free"
    /\ pc = "idle"
    /\ call = Null
    /\ log = <<>>
    /\ out = Null

\* the call raises: every open connection is left by the exception
Raise(outcome) ==
    /\ db' = Rollback(db, tx)
    /\ tx' = NoTx
    /\ lock' = "free"
    /\ pc' = "idle"
    /\ log' = Returned(outcome)
    /\ call' = Null
    /\ out' = out

\* ingest_document is called: HocrDocument parses the file, then the
\* connection is opened
IngestDocument(hocr_path, parsed, min_count) ==
    /\ pc = "idle"
    /\ out = Null
    /\ Len(log) < MaxCalls
    /\ IF ~parsed.readable
       THEN /\ log' = Append(log, [path |-> hocr_path, doc_id |-> doc_id_of(hocr_path),
                                   doc |-> parsed, min_count |-> min_count,
                                   outcome |-> "ParseError"])
            /\ UNCHANGED <<db, tx, lock, pc, call, out>>
       ELSE /\ call' = Some([path |-> hocr_path, doc |-> parsed, min_count |-> min_count])
            /\ pc' = "insert_document"
            /\ tx' = Some(db)
            /\ UNCHANGED <<db, lock, log, out>>

\* cur.execute(INSERT_DOCUMENT): the connection starts its transaction and
\* takes the write lock
InsertDocumentStep ==
    /\ pc = "insert_document"
    /\ IF InsertDocumentConflict(cur, doc_id, path)
       THEN Raise("IntegrityError")
       ELSE /\ tx' = Some(InsertDocument(cur, doc_id, path))
            /\ lock' = "ingest_document"
            /\ pc' = "insert_pages"
            /\ UNCHANGED <<db, call, log, out>>

\* the loop over doc.get_pages()
InsertPagesStep ==
    /\ pc = "insert_pages"
    /\ IF get_pages_raises(doc)
       THEN Raise("IOError")
       ELSE /\ tx' = Some(InsertPages(cur, all_page_vals(doc_id, doc)))
            /\ pc' = "insert_lines"
            /\ UNCHANGED <<db, lock, call, log, out>>

\* the loop over doc.get_lines()
InsertLinesStep ==
    /\ pc = "insert_lines"
    /\ IF get_lines_raises(doc)
       THEN Raise("KeyError")
       ELSE /\ tx' = Some(InsertTranscriptions(cur, all_line_vals(doc_id, doc)))
            /\ pc' = "update_search_index"
            /\ UNCHANGED <<db, lock, call, log, out>>

\* self._update_search_index(...): a second connection, which sees the
\* committed content only and needs the write lock for its first INSERT.
\* SQLite gives the lock to one connection at a time: while ingest_document's
\* connection holds it the INSERT ends in OperationalError (database is
\* locked).  Otherwise the second connection commits, then the first.
UpdateSearchIndexStep ==
    /\ pc = "update_search_index"
    /\ IF lock # "free"
       THEN Raise("OperationalError")
       ELSE LET r == update_search_index(db, doc_id, autocomplete_min_count)
            IN IF r.raised
               THEN Raise("IntegrityError")
               ELSE /\ db' = Commit(Commit(db, r.store),
                                    [cur EXCEPT !.text_idx = r.store.text_idx,
                                                !.lexica = r.store.lexica])
                    /\ tx' = NoTx
                    /\ lock' = "free"
                    /\ pc' = "idle"
                    /\ log' = Returned("ok")
                    /\ call' = Null
                    /\ out' = out

\* GET /iiif/<book_id>/search: the loop of search_in_book over
\* repository.search(query, book_id); hits is Null when search raises
SearchInBook(query, book_id) ==
    /\ call = Null
    /\ out = Null
    /\ out' = Some([op |-> "search", query |-> query, prefix |-> S0,
                    document_id |-> book_id, min_cnt |-> 0,
                    hits |-> search_in_book(db, query, book_id), terms |-> Null])
    /\ UNCHANGED <<db, tx, lock, pc, call, log>>

\* repository.autocomplete(query, book_id, min_cnt), consumed to its end, as
\* autocomplete_in_book calls it; terms is Null when it raises
Autocomplete(query, book_id, min_cnt) ==
    /\ call = Null
    /\ out = Null
    /\ out' = Some([op |-> "autocomplete", query |-> <<>>, prefix |-> query,
                    document_id |-> book_id, min_cnt |-> min_cnt,
                    hits |-> Null, terms |-> autocomplete(db, query, book_id, min_cnt)])
    /\ UNCHANGED <<db, tx, lock, pc, call, log>>

\* the result of a metadata read as the caller receives it; result is Null
\* when the read raises
Read(op, document_id, page_id, result) ==
    /\ call = Null
    /\ out = Null
    /\ out' = Some([op |-> op, document_id |-> document_id, page_id |-> page_id,
                    result |-> result])
    /\ UNCHANGED <<db, tx, lock, pc, call, log>>

\* repository.document_ids(), as index calls it
DocumentIds == Read("document_ids", "", "", document_ids(db))

\* repository.get_document(book_id), as get_book_manifest calls it
GetDocument(book_id) == Read("get_document", book_id, "", get_document(db, book_id))

\* repository.get_pages(book_id), as get_book_manifest calls it
GetPages(book_id) == Read("get_pages", book_id, "", repository_get_pages(db, book_id))

\* repository.get_page(document_id, page_id)
GetPage(document_id, page_id) ==
    Read("get_page", document_id, page_id, get_page(db, document_id, page_id))

\* repository.get_lines(book_id, page_id), as get_page_lines calls it
GetLines(book_id, page_id) ==
    Read("get_lines", book_id, page_id, repository_get_lines(db, book_id, page_id))

\* repository.get_image_path(book_id, page_id), as locate_image calls it
GetImagePath(book_id, page_id) ==
    Read("get_image_path", book_id, page_id, get_image_path(db, book_id, page_id))

\* the response of the request is sent
Respond ==
    /\ out # Null
    /\ out' = Null
    /\ UNCHANGED <<db, tx, lock, pc, call, log>>

Next ==
    \/ \E c \in Calls : IngestDocument(c.path, c.doc, c.min_count)
    \/ InsertDocumentStep
    \/ InsertPagesStep
    \/ InsertLinesStep
    \/ UpdateSearchIndexStep
    \/ \E q \in Queries, d \in DocIds : SearchInBook(q, d)
    \/ \E q \in Prefixes, d \in DocIds, n \in MinCounts : Autocomplete(q, d, n)
    \/ DocumentIds
    \/ \E d \in DocIds : GetDocument(d)
    \/ \E d \in DocIds : GetPages(d)
    \/ \E d \in DocIds, p \in PageIds : GetPage(d, p)
    \/ \E d \in DocIds, p \in PageIds : GetLines(d, p)
    \/ \E d \in DocIds, p \in PageIds : GetImagePath(d, p)
    \/ Respond

Spec == Init /\ [][Next]_vars

----------------------------------------------------------------------------
(* The statements of ingest_document and _update_search_index run on one    *)
(* store, as one connection executes them, and the queries on the result.   *)
(* In Spec no call gets that far: the connection of _update_search_index    *)
(* ends in OperationalError.  StmtSpec is what the statements compute.      *)

\* ingest_document on one connection: Null when a step raises
ingest_statements(S, hocr_path, parsed, min_count) ==
    LET id == doc_id_of(hocr_path)
        S1 == InsertDocument(S, id, hocr_path)
        S2 == InsertPages(S1, all_page_vals(id, parsed))
        S3 == InsertTranscriptions(S2, all_line_vals(id, parsed))
        r  == update_search_index(S3, id, min_count)
    IN IF \/ ~parsed.readable
          \/ InsertDocumentConflict(S, id, hocr_path)
          \/ get_pages_raises(parsed)
          \/ get_lines_raises(parsed)
          \/ r.raised
       THEN Null
       ELSE Some(r.store)

\* ingest_document as one step; tx keeps the store the call started from and
\* call the arguments and the outcome, until the call has returned
StmtIngest(hocr_path, parsed, min_count) ==
    /\ out = Null
    /\ call = Null
    /\ LET r == ingest_statements(db, hocr_path, parsed, min_count)
       IN /\ db' = IF IsNull(r) THEN db ELSE Val(r)
          /\ call' = Some([path |-> hocr_path, doc |-> parsed, min_count |-> min_count,
                           outcome |-> IF IsNull(r) THEN "raised" ELSE "ok"])
    /\ tx' = Some(db)
    /\ UNCHANGED <<lock, pc, log, out>>

\* the call has returned to index_documents
StmtReturn ==
    /\ call # Null
    /\ call' = Null
    /\ tx' = NoTx
    /\ UNCHANGED <<db, lock, pc, log, out>>

StmtNext ==
    \/ \E c \in Calls : StmtIngest(c.path, c.doc, c.min_count)
    \/ StmtReturn
    \/ \E q \in Queries, d \in DocIds : SearchInBook(q, d)
    \/ \E q \in Prefixes, d \in DocIds, n \in MinCounts : Autocomplete(q, d, n)
    \/ DocumentIds
    \/ \E d \in DocIds : GetDocument(d)
    \/ \E d \in DocIds : GetPages(d)
    \/ \E d \in DocIds, p \in PageIds : GetPage(d, p)
    \/ \E d \in DocIds, p \in PageIds : GetLines(d, p)
    \/ \E d \in DocIds, p \in PageIds : GetImagePath(d, p)
    \/ Respond

StmtSpec == Init /\ [][StmtNext]_vars

----------------------------------------------------------------------------
(* Properties                                                               *)

\* the rows of a table that belong to document d
RowsFor(table, d) == SelectSeq(table, LAMBDA r : r.document_id = d)

AsSet(rows) == {rows[i] : i \in 1..Len(rows)}

\* the parser reads the document to its end
Parses(parsed) ==
    parsed.readable /\ ~get_pages_raises(parsed) /\ ~get_lines_raises(parsed)

\* what the index is to hold for a document: for every page with at least one
\* line, the page id with the texts of its lines joined by single spaces
IndexTexts(parsed) ==
    LET pages == get_lines(parsed)
    IN {<<pages[i].page_id,
          Join([k \in 1..Len(pages[i].lines) |-> pages[i].lines[k].text], <<" ">>)>> :
            i \in {i \in 1..Len(pages) : pages[i].lines # <<>>}}

\* the index holds exactly one entry for every page of the content that has a
\* line, with the text of that page
IndexHolds(S, d, parsed) ==
    /\ Len(RowsFor(S.text_idx, d)) = Cardinality(IndexTexts(parsed))
    /\ {<<r.page_id, r.text>> : r \in AsSet(RowsFor(S.text_idx, d))} = IndexTexts(parsed)

\* the store holds for document d one document row and exactly the pages,
\* lines and index entries of the content, none twice
HoldsExactly(S, d, parsed) ==
    /\ Len(RowsFor(S.documents, d)) = 1
    /\ Len(RowsFor(S.pages, d)) = Len(all_page_vals(d, parsed))
    /\ AsSet(RowsFor(S.pages, d)) = AsSet(all_page_vals(d, parsed))
    /\ Len(RowsFor(S.transcriptions, d)) = Len(all_line_vals(d, parsed))
    /\ AsSet(RowsFor(S.transcriptions, d)) = AsSet(all_line_vals(d, parsed))
    /\ IndexHolds(S, d, parsed)

\* no table holds a row of document d
HoldsNothing(S, d) ==
    /\ RowsFor(S.documents, d) = <<>>
    /\ RowsFor(S.pages, d) = <<>>
    /\ RowsFor(S.transcriptions, d) = <<>>
    /\ RowsFor(S.text_idx, d) = <<>>
    /\ RowsFor(S.lexica, d) = <<>>

\* C1: re-ingesting a document id that already exists replaces it: when
\* ingest_document has run for an id the store already held, with content
\* the parser reads, the store holds exactly one document row for the id and
\* exactly the pages, lines and index entries of the new content.
C1_ReingestReplaces ==
    (call # Null /\ Parses(doc) /\ RowsFor(Val(tx).documents, doc_id) # <<>>)
        => HoldsExactly(db, doc_id, doc)

\* every document id of the store was written whole by one call that
\* returned normally, or has no row at all
AllOrNothing ==
    \A d \in DocIds :
        \/ HoldsNothing(db, d)
        \/ \E i \in 1..Len(log) :
              /\ log[i].outcome = "ok"
              /\ log[i].doc_id = d
              /\ HoldsExactly(db, d, log[i].doc)
              /\ Len(RowsFor(db.lexica, d)) = 1

\* a step that is not the normal return of a call leaves the committed store
\* as it is
FailureKeepsStore ==
    (log' = log \/ log'[Len(log')].outcome # "ok") => db' = db

\* C2: ingestion is atomic: in every committed state a document id has its
\* document row, pages, lines, index entries and term table all from one
\* call, or none of them; and a call that raises, at whatever step, leaves
\* the committed store exactly as it was before the call.
C2_IngestIsAtomic == [](AllOrNothing) /\ [][FailureKeepsStore]_vars

\* two calls have raised after their connection had written rows: one at the
\* line inserts or page inserts, one at the index build
C2_Witness ==
    /\ pc = "idle"
    /\ \E i, j \in 1..Len(log) :
          /\ log[i].outcome \in {"KeyError", "IOError"}
          /\ log[j].outcome = "OperationalError"
    /\ HoldsNothing(db, "d1")

\* C3: after ingest_document has returned for a document the parser reads,
\* the index holds exactly one entry for every page of it that has a line,
\* and the entry's text is the page's line texts, from the rows of that call,
\* joined by single spaces in position order.
C3_IndexEntryPerPage ==
    (pc = "idle" /\ log # <<>> /\ Parses(log[Len(log)].doc))
        => IndexHolds(db, log[Len(log)].doc_id, log[Len(log)].doc)

\* C4: ingest_document(d) leaves every page row, line row, index entry and
\* term table of every other document id as it was before the call, whether
\* the call returns normally or raises.
C4_OtherDocumentsUnchanged ==
    call # Null =>
        \A d \in DocIds \ {doc_id} :
            /\ RowsFor(db.pages, d) = RowsFor(Val(tx).pages, d)
            /\ RowsFor(db.transcriptions, d) = RowsFor(Val(tx).transcriptions, d)
            /\ RowsFor(db.text_idx, d) = RowsFor(Val(tx).text_idx, d)
            /\ RowsFor(db.lexica, d) = RowsFor(Val(tx).lexica, d)

\* d2 has been ingested into a store that held pages, lines, index entries
\* and a term table of d1, two of its pages indexed
C4_Witness ==
    /\ call # Null
    /\ Val(call).outcome = "ok"
    /\ doc_id = "d2"
    /\ RowsFor(db.text_idx, "d2") # <<>>
    /\ Len(RowsFor(Val(tx).text_idx, "d1")) = 2
    /\ RowsFor(Val(tx).pages, "d1") # <<>>
    /\ RowsFor(Val(tx).transcriptions, "d1") # <<>>
    /\ RowsFor(Val(tx).lexica, "d1") # <<>>

\* C5: for a document ingested after any earlier ingests, the local frequency
\* computed for each term (before the purge) is the vocabulary's count of the
\* term after the document's index entries were inserted minus its count of
\* that same term before; a term whose count did not change is not in the
\* document's table.
C5_LocalFrequencyIsIncrease ==
    (call # Null /\ Val(call).outcome = "ok") =>
        LET terms_before == text_vocab(Val(tx))
            terms_after  == text_vocab(db)
            computed     == doc_terms(terms_before, terms_after)
        IN \A i \in 1..Len(terms_after) :
              LET term     == terms_after[i][1]
                  increase == terms_after[i][2] - GetOr(terms_before, term, 0)
              IN Get(computed, term) = IF increase = 0 THEN Null ELSE Some(increase)

\* the occurrences of a term in the index entries of document d: the
\* document's own contribution to the term's count
LocalFrequency(S, d, term) ==
    LET rows == RowsFor(S.text_idx, d)
    IN SumSeq([i \in 1..Len(rows) |-> Occurrences(fts_tokens(rows[i].text), term)])

\* C6: autocomplete with min_count = N + 1 returns no term whose frequency in
\* the document (the document's own contribution) is exactly N; the terms it
\* returns all start with the lower-cased prefix and come in descending order
\* of frequency.
C6_AutocompleteThreshold ==
    (out # Null /\ Val(out).op = "autocomplete" /\ ~IsNull(Val(out).terms)) =>
        LET o     == Val(out)
            terms == Val(o.terms)
        IN /\ \A i \in 1..Len(terms) :
                 LocalFrequency(db, o.document_id, terms[i][1]) # o.min_cnt - 1
           /\ \A i \in 1..Len(terms) : StartsWith(terms[i][1], Lower(o.prefix))
           /\ \A i, j \in 1..Len(terms) : i < j => terms[i][2] >= terms[j][2]

\* the match spans of a page's highlighted words, from word number k (from 0)
\* on: a span runs from the first word that holds an opening marker to the
\* first word from there on that holds a closing marker, and the next span
\* starts after it
RECURSIVE MatchSpans(_, _)
MatchSpans(match_text, k) ==
    LET opens == {i \in k..(Len(match_text) - 1) : HasMarker(match_text[i + 1], "<hi>")}
    IN IF opens = {} THEN <<>>
       ELSE LET start  == CHOOSE i \in opens : \A j \in opens : i <= j
                closes == {i \in start..(Len(match_text) - 1) :
                              HasMarker(match_text[i + 1], "</hi>")}
            IN IF closes = {} THEN <<>>
               ELSE LET end == CHOOSE i \in closes : \A j \in closes : i <= j
                    IN << <<start, end>> >> \o MatchSpans(match_text, end + 1)

\* the hits the spans of the matching pages call for: page, span and match text
SpanHits(pages) ==
    Flatten([i \in 1..Len(pages) |->
        LET match_text == SplitWs(pages[i].match_text)
            spans      == MatchSpans(match_text, 0)
        IN [k \in 1..Len(spans) |->
              [page_id |-> pages[i].page_id,
               start_idx |-> spans[k][1], end_idx |-> spans[k][2],
               match |-> strip_markers(Join(Slice(match_text, spans[k][1], spans[k][2] + 1),
                                            <<" ">>))]]])

\* C7: for each matching page the search handler reports one hit per match
\* span, the spans of a page disjoint and in left-to-right order, and a hit's
\* match text is the span's words joined by spaces with the markers removed.
C7_OneHitPerSpan ==
    (out # Null /\ Val(out).op = "search" /\ ~IsNull(Val(out).hits)) =>
        LET o    == Val(out)
            hits == Val(o.hits)
        IN [k \in 1..Len(hits) |->
              [page_id |-> hits[k].page_id, start_idx |-> hits[k].start_idx,
               end_idx |-> hits[k].end_idx, match |-> hits[k].match]]
           = SpanHits(search(db, o.query, o.document_id))

\* the numbers of a persisted word_cuts value: one triple per word cut
CutsOf(word_cuts) ==
    LET ws == SelectNonEmpty(Split(word_cuts, <<" ">>))
    IN [i \in 1..Len(ws) |-> triple(ws[i])]

\* a nullable integer column, -1 when it is NULL
OrSentinel(x) == IF IsNull(x) THEN 0 - 1 ELSE Val(x)

\* the persisted lines of a page, in position order
PageLines(S, d, page_id) ==
    OrderRows(SelectSeq(RowsFor(S.transcriptions, d), LAMBDA r : r.page_id = page_id))

\* the word hits a span [start_idx, end_idx] of a page calls for: one for
\* every word cut of the page's lines whose sequence position lies in the span
SpanWords(S, d, page_id, match_text, start_idx, end_idx) ==
    LET lines == PageLines(S, d, page_id)
    IN Flatten([n \in 1..Len(lines) |->
          LET cuts == SelectSeq(CutsOf(lines[n].word_cuts),
                                LAMBDA c : start_idx <= c[1] /\ c[1] <= end_idx)
          IN [i \in 1..Len(cuts) |->
                [chars |-> strip_markers(match_text[cuts[i][1] + 1]), pos |-> cuts[i][1],
                 x |-> cuts[i][2], y |-> OrSentinel(lines[n].pos_y),
                 w |-> cuts[i][3] - cuts[i][2], h |-> OrSentinel(lines[n].height)]]])

\* the highlighted words of a page among the matching pages
MatchTextOf(pages, page_id) ==
    SplitWs(pages[CHOOSE i \in 1..Len(pages) : pages[i].page_id = page_id].match_text)

\* C8: a hit record of a span [start, end] of a page carries exactly one
\* word hit for every word cut of the page whose sequence position p has
\* start <= p <= end, and no other; the word hit has the marker-stripped word
\* at p, the origin (start_x, y_pos of the word's line), the extent
\* (end_x - start_x, height of the word's line) and p.
C8_WordHitsOfSpan ==
    (out # Null /\ Val(out).op = "search" /\ ~IsNull(Val(out).hits)) =>
        LET o     == Val(out)
            hits  == Val(o.hits)
            pages == search(db, o.query, o.document_id)
        IN \A k \in 1..Len(hits) :
              hits[k].words = SpanWords(db, o.document_id, hits[k].page_id,
                                        MatchTextOf(pages, hits[k].page_id),
                                        hits[k].start_idx, hits[k].end_idx)

\* the positional blob of decoded line_infos: per line its word cuts joined by
\* blanks, '|', the line's y_pos:height:sequence_pos and '||', the lines
\* joined by blanks
Encode(line_infos) ==
    Join([n \in 1..Len(line_infos) |->
            Join([i \in 1..Len(line_infos[n].winfos) |->
                    Join([f \in 1..3 |-> Str(line_infos[n].winfos[i][f])], <<":">>)],
                 <<" ">>)
            \o <<"|">>
            \o Join([f \in 1..3 |-> Str(line_infos[n].linfo[f])], <<":">>)
            \o <<"|", "|">>],
         <<" ">>)

\* C9: for every page of every ingested document the stored positional blob
\* decodes, the decoded value encodes to the stored blob again, and it has
\* one (line metadata, word cuts) group per persisted line of the page, in
\* position order, with the word cuts of the line as they were ingested.
C9_BlobRoundTrip ==
    \A i \in 1..Len(db.text_idx) :
        LET r     == db.text_idx[i]
            lines == PageLines(db, r.document_id, r.page_id)
        IN /\ ~decode_raises(r.word_infos)
           /\ Encode(decode(r.word_infos)) = Val(r.word_infos)
           /\ Len(decode(r.word_infos)) = Len(lines)
           /\ \A n \in 1..Len(lines) :
                 /\ decode(r.word_infos)[n].linfo[3] = lines[n].position
                 /\ decode(r.word_infos)[n].winfos = CutsOf(lines[n].word_cuts)

\* C10: a line without a bounding box is ingested and its text is in the
\* index; a search on a document with such a line does not raise, and every
\* word of the line that lies in a reported span is a word hit of that span,
\* with -1 for the line's y_pos and height.
C10_LineWithoutBoundingBox ==
    /\ \A i \in 1..Len(db.transcriptions) :
          LET r == db.transcriptions[i]
          IN IsNull(r.pos_x) =>
                \E j \in 1..Len(db.text_idx) :
                    /\ db.text_idx[j].document_id = r.document_id
                    /\ db.text_idx[j].page_id = r.page_id
                    /\ \E k \in 1..Len(db.text_idx[j].text) :
                          HasAt(db.text_idx[j].text, r.text, k)
    /\ (out # Null /\ Val(out).op = "search") =>
          /\ ~IsNull(Val(out).hits)
          /\ LET o    == Val(out)
                 hits == Val(o.hits)
             IN \A k \in 1..Len(hits) :
                   LET lines == PageLines(db, o.document_id, hits[k].page_id)
                   IN \A n \in 1..Len(lines) :
                         IsNull(lines[n].pos_x) =>
                            \A c \in AsSet(CutsOf(lines[n].word_cuts)) :
                               (hits[k].start_idx <= c[1] /\ c[1] <= hits[k].end_idx) =>
                                  \E w \in AsSet(hits[k].words) :
                                      w.pos = c[1] /\ w.y = 0 - 1 /\ w.h = 0 - 1

\* the results of the queries on store S for document d
QueryResults(S, d) ==
    [search       |-> [q \in Queries |-> search_in_book(S, q, d)],
     autocomplete |-> [q \in Prefixes |-> [n \in MinCounts |-> autocomplete(S, q, d, n)]],
     get_pages    |-> repository_get_pages(S, d),
     get_lines    |-> [p \in PageIds |-> repository_get_lines(S, d, p)]]

\* the store before the call held document d as an ingest of the same file
\* with the same content left it
HeldAlready(S, d, hocr_path, parsed) ==
    /\ Parses(parsed)
    /\ HoldsExactly(S, d, parsed)
    /\ RowsFor(S.documents, d)[1].filename = hocr_path
    /\ Len(RowsFor(S.lexica, d)) = 1

PagePositions(lines) ==
    Flatten([k \in 1..Len(lines) |->
                [w \in 1..Len(lines[k].word_cuts) |-> Int_(lines[k].word_cuts[w][1])]])

StrictlyIncreasing(ns) == \A i \in 1..(Len(ns) - 1) : ns[i] < ns[i + 1]

\* the line nodes of a page node the parser keeps: those with text
KeptNodes(page) == SelectSeq(page.lines, LAMBDA n : line_text(n.text) # S0)

\* every word node of a kept line has its cut, and a word node without a bbox
\* has the cut with the coordinates -1
WordsKeepPositions(page, lines) ==
    /\ Len(lines) = Len(KeptNodes(page))
    /\ \A k \in 1..Len(lines) :
          LET words == KeptNodes(page)[k].words
          IN /\ Len(lines[k].word_cuts) = Len(words)
             /\ \A w \in 1..Len(words) :
                   words[w].title # "bbox" =>
                       /\ lines[k].word_cuts[w][2] = <<"-", "1">>
                       /\ lines[k].word_cuts[w][3] = <<"-", "1">>

\* C12: for every file the parser is given, get_lines yields for each page
\* word cuts whose sequence positions are strictly increasing in document
\* order across the lines of the page, and a word node without geometry has
\* its cut, with the coordinates -1, at its own position.
C12_SequencePositionsIncrease ==
    (call # Null /\ doc.readable /\ ~get_pages_raises(doc))
        => /\ ~get_lines_raises(doc)
           /\ \A i \in 1..Len(doc.pages) :
                 /\ StrictlyIncreasing(PagePositions(get_lines(doc)[i].lines))
                 /\ WordsKeepPositions(doc.pages[i], get_lines(doc)[i].lines)

\* the metadata reads that take an id
MetadataReads == {"get_document", "get_page", "get_pages", "get_lines", "get_image_path"}

\* the ids of a metadata read match no row of the table it reads
MatchesNothing(S, op, document_id, page_id) ==
    CASE op = "get_document" -> RowsFor(S.documents, document_id) = <<>>
      [] op = "get_pages"    -> RowsFor(S.pages, document_id) = <<>>
      [] op = "get_lines"    ->
            SelectSeq(RowsFor(S.transcriptions, document_id),
                      LAMBDA r : r.page_id = page_id) = <<>>
      [] OTHER               ->
            SelectSeq(RowsFor(S.pages, document_id), LAMBDA r : r.page_id = page_id) = <<>>

\* C13: a metadata read (document_ids, get_document, get_page, get_pages,
\* get_lines, get_image_path) never raises, and called with a document id or
\* page id that matches nothing it returns None or the empty list; so in
\* every state of the store, the empty store included.
C13_ReadsOfNothingAreEmpty ==
    (out # Null /\ Val(out).op \in MetadataReads \cup {"document_ids"})
        => /\ ~IsNull(Val(out).result)
           /\ (/\ Val(out).op \in MetadataReads
               /\ MatchesNothing(db, Val(out).op, Val(out).document_id, Val(out).page_id))
                  => Val(Val(out).result) = <<>>

\* the positional blob of page page_id of document d holds a line group with
\* the line metadata linfo
BlobHasLine(S, d, page_id, linfo) ==
    \E j \in 1..Len(S.text_idx) :
        /\ S.text_idx[j].document_id = d
        /\ S.text_idx[j].page_id = page_id
        /\ ~decode_raises(S.text_idx[j].word_infos)
        /\ \E n \in 1..Len(decode(S.text_idx[j].word_infos)) :
              decode(S.text_idx[j].word_infos)[n].linfo = linfo

\* C14: after ingest_document has returned, get_lines returns the lines of
\* every page in position order, a line whose bounding box (x1, y1, x2, y2)
\* is known as (text, x1, y1, x2 - x1, y2 - y1), whatever the coordinates
\* are, x1 = 0 included, and the positional blob of the page holds the line's
\* group with y_pos = y1 and height = y2 - y1.
C14_LinesKeepGeometry ==
    (call # Null /\ Val(call).outcome = "ok")
        => \A i \in 1..Len(get_lines(doc)) :
              LET page_id == get_lines(doc)[i].page_id
                  lines   == get_lines(doc)[i].lines
                  got     == repository_get_lines(db, doc_id, page_id)
              IN /\ ~IsNull(got)
                 /\ Len(Val(got)) = Len(lines)
                 /\ \A k \in 1..Len(lines) :
                       /\ Val(got)[k][1] = lines[k].text
                       /\ ~IsNull(lines[k].bbox) =>
                             LET b == Val(lines[k].bbox)
                             IN /\ Val(got)[k] = <<lines[k].text, Some(b[1]), Some(b[2]),
                                                   Some(b[3] - b[1]), Some(b[4] - b[2])>>
                                /\ BlobHasLine(db, doc_id, page_id,
                                               <<b[2], b[4] - b[2], k - 1>>)

\* the number of whitespace-separated tokens of the texts of the first n lines
RECURSIVE TokensBefore(_, _)
TokensBefore(lines, n) ==
    IF n = 0 THEN 0 ELSE TokensBefore(lines, n - 1) + Len(SplitWs(lines[n].text))

\* C15: for every page of the index, the tokens of the indexed text are the
\* tokens of the page's lines in position order, and the word cuts of each
\* line carry, in order, the token indexes of that line's tokens: the cut
\* with sequence position k is the cut of the k-th token (0-based) of the
\* indexed text, so the handler's span.start..span.end select the boxes of
\* the matched words; a line dropped for empty text, a line without word
\* nodes and a word without geometry do not shift it.
C15_CutsFollowTokens ==
    \A i \in 1..Len(db.text_idx) :
        LET r     == db.text_idx[i]
            lines == PageLines(db, r.document_id, r.page_id)
        IN /\ SplitWs(r.text) = Flatten([n \in 1..Len(lines) |-> SplitWs(lines[n].text)])
           /\ \A n \in 1..Len(lines) :
                 LET cuts == CutsOf(lines[n].word_cuts)
                 IN /\ Len(cuts) = Len(SplitWs(lines[n].text))
                    /\ \A w \in 1..Len(cuts) :
                          cuts[w][1] = TokensBefore(lines, n - 1) + w - 1

============================================================================
